---------------------------- MODULE Spec2Model ----------------------------
(***************************************************************************)
(* A model of static/js/main.js: the four-step workflow (upload PDF,       *)
(* extract content, generate factor code, run backtest), the pipeline      *)
(* state it keeps in globals, the status badges, loading affordances and   *)
(* control enablement it drives, the key-factor normalisation of           *)
(* displayExtractionResults and the chart instance kept by                 *)
(* drawReturnsChart.                                                       *)
(*                                                                         *)
(* Every async function is cut at its awaits.  The synchronous prefix up   *)
(* to the fetch is one action.  Between `await fetch` and `await           *)
(* response.json()` the function runs nothing but the call of              *)
(* response.json(), so the two awaits are one suspended position, which    *)
(* the function leaves in one of three ways: fetch rejects, response.json()*)
(* rejects, or response.json() resolves with the result; the try, catch    *)
(* and finally code that then runs is one action.  The browser runs each   *)
(* piece to completion on its single thread, so each is atomic.            *)
(*                                                                         *)
(* The user-visible strings of the source are Chinese; the model carries   *)
(* them as ASCII translations, one distinct string per distinct source     *)
(* string.                                                                 *)
(***************************************************************************)
EXTENDS Integers, Sequences, FiniteSets, Bags, TLC

(***************************************************************************)
(* JavaScript values, as far as the responses of the backend carry them.   *)
(* A string is the sequence of its lexical tokens, so that JSON.parse has  *)
(* something to parse: a punctuation mark, a number literal, a quoted      *)
(* string literal (holding the tokens of its content) or a bare word.      *)
(***************************************************************************)
P(c) == [k |-> "punct", c |-> c]
W(w) == [k |-> "word", w |-> w]
N(d) == [k |-> "num", d |-> d]
S(toks) == [k |-> "strlit", s |-> toks]

Undefined == [t |-> "undefined"]
Null == [t |-> "null"]
Bool(b) == [t |-> "boolean", b |-> b]
Num(d) == [t |-> "number", d |-> d]
Str(toks) == [t |-> "string", s |-> toks]
Arr(elems) == [t |-> "array", a |-> elems]
Obj(pairs) == [t |-> "object", o |-> pairs]

\* A string of one word, and the key/value pair of an object.
Text(w) == Str(<<W(w)>>)
Pair(key, value) == [key |-> <<W(key)>>, val |-> value]

IsArray(v) == v.t = "array"
IsString(v) == v.t = "string"
\* typeof v === 'object': objects, arrays and null.
IsObjectType(v) == v.t \in {"object", "array", "null"}

\* ToBoolean: undefined, null, false, 0 and the empty string are falsy.
Truthy(v) ==
    CASE v.t = "undefined" -> FALSE
      [] v.t = "null" -> FALSE
      [] v.t = "boolean" -> v.b
      [] v.t = "number" -> v.d # "0"
      [] v.t = "string" -> v.s # <<>>
      [] OTHER -> TRUE

\* a || b
Or(a, b) == IF Truthy(a) THEN a ELSE b

\* Reading property `key` (a token sequence) of v, for v neither null nor
\* undefined.  Only objects hold the keys read here; primitives and arrays
\* answer undefined for them.
Get(v, key) ==
    IF v.t = "object" /\ \E i \in 1..Len(v.o) : v.o[i].key = key
    THEN LET i == CHOOSE j \in 1..Len(v.o) : v.o[j].key = key IN v.o[i].val
    ELSE Undefined

\* Whether reading a property of v throws a TypeError.
Nullish(v) == v.t \in {"undefined", "null"}

\* v?.key
OptGet(v, key) == IF Nullish(v) THEN Undefined ELSE Get(v, key)

RECURSIVE JoinTokens(_, _)
\* The concatenation of the token sequences in parts, sep between them.
JoinTokens(parts, sep) ==
    IF parts = <<>> THEN <<>>
    ELSE IF Len(parts) = 1 THEN parts[1]
    ELSE parts[1] \o sep \o JoinTokens(Tail(parts), sep)

RECURSIVE TemplateString(_)
\* String(v), as a template literal `${v}` computes it.
TemplateString(v) ==
    CASE v.t = "undefined" -> <<W("undefined")>>
      [] v.t = "null" -> <<W("null")>>
      [] v.t = "boolean" -> IF v.b THEN <<W("true")>> ELSE <<W("false")>>
      [] v.t = "number" -> <<N(v.d)>>
      [] v.t = "string" -> v.s
      [] v.t = "array" ->
            JoinTokens([i \in 1..Len(v.a) |->
                           IF Nullish(v.a[i]) THEN <<>> ELSE TemplateString(v.a[i])],
                       <<P(",")>>)
      [] OTHER -> <<W("[object Object]")>>

RECURSIVE JSONStringify(_)
\* JSON.stringify(v), for the values a parsed response holds.
JSONStringify(v) ==
    CASE v.t = "undefined" -> <<W("undefined")>>
      [] v.t = "null" -> <<W("null")>>
      [] v.t = "boolean" -> IF v.b THEN <<W("true")>> ELSE <<W("false")>>
      [] v.t = "number" -> <<N(v.d)>>
      [] v.t = "string" -> <<S(v.s)>>
      [] v.t = "array" ->
            <<P("[")>>
            \o JoinTokens([i \in 1..Len(v.a) |->
                              IF v.a[i].t = "undefined" THEN <<W("null")>>
                              ELSE JSONStringify(v.a[i])],
                          <<P(",")>>)
            \o <<P("]")>>
      [] OTHER ->
            <<P("{")>>
            \o JoinTokens([i \in 1..Len(v.o) |->
                              <<S(v.o[i].key), P(":")>> \o JSONStringify(v.o[i].val)],
                          <<P(",")>>)
            \o <<P("}")>>

\* The result of a parse: a value and the place after it, or a SyntaxError.
Parsed(v, next) == [ok |-> TRUE, val |-> v, next |-> next]
SyntaxError == [ok |-> FALSE, val |-> Undefined, next |-> 0]

IsPunct(toks, i, c) == i <= Len(toks) /\ toks[i] = P(c)

\* An object's pairs with key set to value: a repeated key keeps its place
\* and takes the later value.
PutPair(pairs, key, value) ==
    IF \E i \in 1..Len(pairs) : pairs[i].key = key
    THEN [i \in 1..Len(pairs) |->
             IF pairs[i].key = key THEN [key |-> key, val |-> value] ELSE pairs[i]]
    ELSE Append(pairs, [key |-> key, val |-> value])

RECURSIVE ParseValue(_, _), ParseElements(_, _, _), ParseMembers(_, _, _)
\* The JSON value that starts at token i.
ParseValue(toks, i) ==
    IF i > Len(toks) THEN SyntaxError
    ELSE LET tk == toks[i] IN
         CASE tk.k = "word" ->
                 IF tk.w = "null" THEN Parsed(Null, i + 1)
                 ELSE IF tk.w = "true" THEN Parsed(Bool(TRUE), i + 1)
                 ELSE IF tk.w = "false" THEN Parsed(Bool(FALSE), i + 1)
                 ELSE SyntaxError
           [] tk.k = "num" -> Parsed(Num(tk.d), i + 1)
           [] tk.k = "strlit" -> Parsed(Str(tk.s), i + 1)
           [] OTHER ->
                 IF tk.c = "[" THEN
                     IF IsPunct(toks, i + 1, "]") THEN Parsed(Arr(<<>>), i + 2)
                     ELSE ParseElements(toks, i + 1, <<>>)
                 ELSE IF tk.c = "{" THEN
                     IF IsPunct(toks, i + 1, "}") THEN Parsed(Obj(<<>>), i + 2)
                     ELSE ParseMembers(toks, i + 1, <<>>)
                 ELSE SyntaxError

\* The elements of an array from token i on, acc being those already read.
ParseElements(toks, i, acc) ==
    LET e == ParseValue(toks, i) IN
    IF ~e.ok THEN SyntaxError
    ELSE IF IsPunct(toks, e.next, ",")
         THEN ParseElements(toks, e.next + 1, Append(acc, e.val))
    ELSE IF IsPunct(toks, e.next, "]")
         THEN Parsed(Arr(Append(acc, e.val)), e.next + 1)
    ELSE SyntaxError

\* The members of an object from token i on, acc being those already read.
ParseMembers(toks, i, acc) ==
    IF ~(i <= Len(toks) /\ toks[i].k = "strlit" /\ IsPunct(toks, i + 1, ":"))
    THEN SyntaxError
    ELSE LET e == ParseValue(toks, i + 2) IN
         IF ~e.ok THEN SyntaxError
         ELSE IF IsPunct(toks, e.next, ",")
              THEN ParseMembers(toks, e.next + 1, PutPair(acc, toks[i].s, e.val))
         ELSE IF IsPunct(toks, e.next, "}")
              THEN Parsed(Obj(PutPair(acc, toks[i].s, e.val)), e.next + 1)
         ELSE SyntaxError

\* JSON.parse(text): the value, or a SyntaxError when text is not one JSON
\* value from its first token to its last.
JSONParse(toks) ==
    LET r == ParseValue(toks, 1) IN
    IF r.ok /\ r.next = Len(toks) + 1 THEN r ELSE SyntaxError

(***************************************************************************)
(* displayExtractionResults.  The page shows HTML; the model keeps what    *)
(* the HTML is made of.  #keyFactors holds either one record (name,        *)
(* description, type) per factor, in order, or one of three markers.       *)
(***************************************************************************)
\* The placeholders of a factor's fields and of the other fields of the page.
UnknownFactor == Text("unknown factor")
NoDescription == Text("no description")
Uncategorized == Text("uncategorized")
ExtractedFactor == Text("extracted factor")
Unknown == Text("unknown")
NoCoreProblem == Text("no core problem extracted")

Records(items) == [kind |-> "records", items |-> items, raw |-> <<>>]
FormatErrorMarker == [kind |-> "format-error", items |-> <<>>, raw |-> <<>>]
ParseFailureMarker(raw) == [kind |-> "parse-failure", items |-> <<>>, raw |-> raw]
NothingExtractedMarker == [kind |-> "nothing-extracted", items |-> <<>>, raw |-> <<>>]

\* What a rendering gives: the HTML, or the exception it threw.
Rendered(html) == [threw |-> FALSE, html |-> html]
Threw == [threw |-> TRUE, html |-> NothingExtractedMarker]

\* The <div> of one factor, for a factor whose properties can be read.
FactorDiv(factor) ==
    [name |-> TemplateString(Or(Get(factor, <<W("name")>>), UnknownFactor)),
     description |-> TemplateString(Or(Get(factor, <<W("description")>>), NoDescription)),
     type |-> TemplateString(Or(Get(factor, <<W("type")>>), Uncategorized))]

\* factors.map(factor => `<div>...</div>`).join(''): reading a property of a
\* null or undefined element throws a TypeError.
MapFactors(factors) ==
    IF \E i \in 1..Len(factors) : Nullish(factors[i])
    THEN Threw
    ELSE Rendered(Records([i \in 1..Len(factors) |-> FactorDiv(factors[i])]))

\* Object.entries(o) turned into factors and rendered without placeholders.
MapEntries(o) ==
    Records([i \in 1..Len(o) |->
                [name |-> o[i].key,
                 description |-> IF IsString(o[i].val) THEN o[i].val.s
                                 ELSE JSONStringify(o[i].val),
                 type |-> ExtractedFactor.s]])

\* The text branch: JSON.parse and the mapping run inside one try, whose
\* catch renders the parse-failure marker with the raw text.
ParsedFactorsHtml(text) ==
    LET parsedFactors == JSONParse(text) IN
    IF ~parsedFactors.ok THEN Rendered(ParseFailureMarker(text))
    ELSE IF IsArray(parsedFactors.val)
         THEN IF MapFactors(parsedFactors.val.a).threw
              THEN Rendered(ParseFailureMarker(text))
              ELSE MapFactors(parsedFactors.val.a)
    ELSE Rendered(FormatErrorMarker)

\* factorsHtml for info.key_factors = kf.
KeyFactorsHtml(kf) ==
    IF Truthy(kf) /\ IsArray(kf) THEN MapFactors(kf.a)
    ELSE IF Truthy(kf) /\ IsString(kf) THEN ParsedFactorsHtml(kf.s)
    ELSE IF Truthy(kf) /\ IsObjectType(kf) THEN Rendered(MapEntries(kf.o))
    ELSE Rendered(NothingExtractedMarker)

\* The three fields read through info.<section>?.<field> || placeholder.
SectionFields(info, section, fields) ==
    [i \in 1..Len(fields) |->
        TemplateString(Or(OptGet(Get(info, <<W(section)>>), <<W(fields[i])>>), Unknown))]

\* What the extraction card shows: #datasetInfo, #coreProblem, #solution
\* and #keyFactors.
ExtractionView(datasetInfo, coreProblem, solution, keyFactors) ==
    [datasetInfo |-> datasetInfo, coreProblem |-> coreProblem,
     solution |-> solution, keyFactors |-> keyFactors]

\* displayExtractionResults(info) on a card showing view: the card it leaves
\* and whether it threw.  It writes the elements in order, so a throw in the
\* key factors leaves the first three written; info null or undefined throws
\* before anything is written.
displayExtractionResults(info, view) ==
    IF Nullish(info) THEN [threw |-> TRUE, view |-> view]
    ELSE LET datasetInfo == SectionFields(info, "datasets",
                                          <<"primary", "time_range", "frequency">>)
             coreProblem == TemplateString(Or(Get(info, <<W("core_problem")>>),
                                              NoCoreProblem))
             solution == SectionFields(info, "solution",
                                       <<"method", "algorithm", "strategy">>)
             factors == KeyFactorsHtml(Get(info, <<W("key_factors")>>))
         IN  [threw |-> factors.threw,
              view |-> ExtractionView(datasetInfo, coreProblem, solution,
                                      IF factors.threw THEN view.keyFactors
                                      ELSE factors.html)]

(***************************************************************************)
(* The page and the workflow.                                              *)
(***************************************************************************)
\* The most invocations of the four workflow functions that pass their
\* precondition in one run, and the most requests in flight at once.
MaxCalls == 2
MaxInFlight == 2

Steps == {"pdf", "extract", "factor", "backtest"}
Statuses == {"pending", "processing", "success", "error"}
Controls == {"extractBtn", "generateBtn", "editBtn", "backtestBtn",
             "datasetSelect", "startDate", "endDate"}

VARIABLES
    currentMarkdownContent,  \* global: the converted document, '' at first
    currentExtractedInfo,    \* global: the extracted info, {} at first
    currentFactorCode,       \* global: the generated code, '' at first
    backtestChart,           \* global: the chart handle, 0 for null
    charts,                  \* the Chart instances ever created: TRUE while not destroyed
    status,                  \* step -> its badge: the classes and the label
    loading,                 \* step -> whether its .loading element is displayed
    disabled,                \* control -> its disabled attribute
    shown,                   \* the result areas displayed so far
    pdfFile,                 \* #pdfFile: the file selected, NoFile for none
    datasetOptions,          \* #datasetSelect: the values of its options
    datasetValue,            \* #datasetSelect: the value selected
    codeEditor,              \* #codeEditor: the text in the editor
    modal,                   \* #codeEditModal: "none" before the first editCode
    markdownContent,         \* #markdownContent: its text
    factorCode,              \* #factorCode: its text
    extraction,              \* the extraction card (see ExtractionView)
    performanceStats,        \* #performanceStats: whether statistics are rendered
    tasks,                   \* the bag of invocations suspended at their awaits
    datasetsTask,            \* where loadDatasets stands
    lastAlert,               \* the message of the most recent alert()
    calls,                   \* invocations that passed their precondition
    succeeded,               \* the steps of which a call completed in success
    sourceOf                 \* what the requests carried whose responses were stored

globals == <<currentMarkdownContent, currentExtractedInfo, currentFactorCode>>
chartVars == <<backtestChart, charts>>
inputVars == <<pdfFile, datasetOptions, datasetValue, codeEditor, modal>>
pageVars == <<markdownContent, factorCode, extraction, performanceStats, shown>>
badgeVars == <<status, loading, disabled>>
taskVars == <<tasks, calls, succeeded, sourceOf>>
vars == <<globals, chartVars, inputVars, pageVars, badgeVars, taskVars,
          datasetsTask, lastAlert>>

\* updateStatus: the class and the label of each status.
statusClasses(st) ==
    CASE st = "pending" -> "bg-secondary"
      [] st = "processing" -> "bg-warning"
      [] st = "success" -> "bg-success"
      [] st = "error" -> "bg-danger"

statusTexts(st) ==
    CASE st = "pending" -> "pending"
      [] st = "processing" -> "processing"
      [] st = "success" -> "completed"
      [] st = "error" -> "failed"

\* updateStatus without the loop that removes the status classes.
updateStatus_NoRemove(badges, step, st) ==
    [badges EXCEPT ![step] =
        [classes |-> @.classes \cup {statusClasses(st)},
         text |-> statusTexts(st)]]

\* updateStatus(step, st) on the badges: every status class is removed from
\* the badge of step, then the class of st is added and the label set.
updateStatus(badges, step, st) ==
    [badges EXCEPT ![step] =
        [classes |-> (@.classes \ {statusClasses(x) : x \in Statuses})
                        \cup {statusClasses(st)},
         text |-> statusTexts(st)]]

\* The statuses whose class the badge of step carries.
StatusesOf(step) == {st \in Statuses : statusClasses(st) \in status[step].classes}
HasStatus(step, st) == StatusesOf(step) = {st}

\* toggleButton(buttonId, enabled) and toggleInputs(inputIds, enabled).
toggleButton(dis, buttonId, enabled) ==
    IF buttonId \in DOMAIN dis THEN [dis EXCEPT ![buttonId] = ~enabled] ELSE dis

toggleInputs(dis, inputIds, enabled) ==
    [c \in DOMAIN dis |-> IF c \in inputIds THEN ~enabled ELSE dis[c]]

\* The text showLoading and hideLoading look for in the card headers: the
\* first space-separated word of their argument (the source's arguments hold
\* no space).
LoadingContext(step) ==
    CASE step = "pdf" -> "PDF-upload"
      [] step = "extract" -> "content-extraction"
      [] step = "factor" -> "factor-generation"
      [] step = "backtest" -> "backtest-analysis"

\* Whether the header of the card of step includes context: the page gives
\* each step one card, whose header names that step alone.
HeaderIncludes(step, context) == context = LoadingContext(step)

\* showLoading(context) and hideLoading(context) on the .loading elements.
showLoading(ld, context) ==
    [s \in Steps |-> IF HeaderIncludes(s, context) THEN TRUE ELSE ld[s]]

hideLoading(ld, context) ==
    [s \in Steps |-> IF HeaderIncludes(s, context) THEN FALSE ELSE ld[s]]

\* showResult(resultId)
showResult(sh, resultId) == sh \cup {resultId}

\* The alerts: an instruction, or a prefix and the message of the error.
NoAlert == <<>>
AlertSelectPdf == <<"Please select a PDF file">>
AlertUploadFirst == <<"Please upload and convert a PDF file first">>
AlertExtractFirst == <<"Please extract the paper content first">>
AlertGenerateFirst == <<"Please generate the factor code first">>
AlertSelectDataset == <<"Please select a dataset">>
ConversionFailed(message) == <<"Conversion failed: ", message>>
UploadFailed(message) == <<"Upload failed: ", message>>
ExtractionFailed(message) == <<"Extraction failed: ", message>>
GenerationFailed(message) == <<"Generation failed: ", message>>
BacktestFailed(message) == <<"Backtest failed: ", message>>

\* The messages of the errors a try block can catch: fetch rejecting,
\* response.json() rejecting, and a TypeError or ReferenceError thrown while
\* the success branch renders.
FetchRejection == "Failed to fetch"
JsonRejection == "Unexpected token in JSON"
RenderError == "TypeError"

\* The body of a request, and an invocation suspended at its awaits.
NoFile == ""
Request(file, md, info, code, dataset) ==
    [file |-> file, markdown_content |-> md, extracted_info |-> info,
     factor_code |-> code, dataset |-> dataset]
Task(step, body) == [step |-> step, body |-> body]

\* What the backend answers: success with a payload, or an error message.
Success(data) == [success |-> TRUE, data |-> data, error |-> ""]
Failure(data) == [success |-> FALSE, data |-> data, error |-> "quota exceeded"]

\* The page as index.html serves it: every badge pending, nothing loading,
\* every control of a later step disabled, no result shown.
InitialStatus == [s \in Steps |-> [classes |-> {"badge", "bg-secondary"}, text |-> "pending"]]
InitialDisabled == [c \in Controls |-> TRUE]

\* sourceOf before any response was stored: no request carries an empty
\* document or an undefined info.
NoSource == [info |-> "", code |-> Undefined]

\* A new invocation suspends at its fetch.
CanCall == calls < MaxCalls /\ BagCardinality(tasks) < MaxInFlight
\* Suspend had a new invocation aborted the requests of its step in flight.
Suspend_AbortsPrior(task) ==
    /\ tasks' = SetToBag({task})
                 (+) [t \in {u \in BagToSet(tasks) : u.step # task.step} |-> tasks[t]]
    /\ calls' = calls + 1
    /\ UNCHANGED <<succeeded, sourceOf>>

Suspend(task) ==
    /\ tasks' = tasks (+) SetToBag({task})
    /\ calls' = calls + 1
    /\ UNCHANGED <<succeeded, sourceOf>>

\* The invocation ends: its promise settles.
Return(task) == tasks' = tasks (-) SetToBag({task})

(***************************************************************************)
(* What the environment supplies: the files and texts the user enters and  *)
(* the payloads the backend answers with.  A payload of '' stands for a    *)
(* missing or empty field (both falsy).                                    *)
(***************************************************************************)
Files == {"paper.pdf"}
MarkdownPayloads == {"", "md1", "md2"}
CodePayloads == {"", "code1"}
EditedTexts == {"code2"}
DatasetIds == {"ds1"}

\* {key_factors: "[{\"name\":\"mom\"}]"}: the info of the end-to-end scenario.
MomFactor == Obj(<<Pair("name", Text("mom"))>>)
MomInfo == Obj(<<Pair("key_factors", Str(JSONStringify(Arr(<<MomFactor>>))))>>)
EmptyInfo == Obj(<<>>)
\* extracted_info missing, empty, and the scenario's.
InfoPayloads == {Undefined, EmptyInfo, MomInfo}

\* result.results: whether performance_stats and cumulative_returns are there.
BacktestPayloads == [stats : BOOLEAN, returns : BOOLEAN]

(***************************************************************************)
(* uploadPDF                                                               *)
(***************************************************************************)
\* The call, up to `await fetch`.
\* uploadPDF had it refused to run again once its step ended in error.
uploadPDF_GivesUpAfterError ==
    IF pdfFile = NoFile \/ HasStatus("pdf", "error")
    THEN /\ lastAlert' = AlertSelectPdf
         /\ UNCHANGED <<globals, chartVars, inputVars, pageVars, badgeVars,
                        taskVars, datasetsTask>>
    ELSE /\ CanCall
         /\ status' = updateStatus(status, "pdf", "processing")
         /\ loading' = showLoading(loading, LoadingContext("pdf"))
         /\ Suspend(Task("pdf", Request(pdfFile, "", Undefined, "", "")))
         /\ UNCHANGED <<globals, chartVars, inputVars, pageVars, disabled,
                        datasetsTask, lastAlert>>

uploadPDF ==
    IF pdfFile = NoFile
    THEN /\ lastAlert' = AlertSelectPdf
         /\ UNCHANGED <<globals, chartVars, inputVars, pageVars, badgeVars,
                        taskVars, datasetsTask>>
    ELSE /\ CanCall
         /\ status' = updateStatus(status, "pdf", "processing")
         /\ loading' = showLoading(loading, LoadingContext("pdf"))
         /\ Suspend(Task("pdf", Request(pdfFile, "", Undefined, "", "")))
         /\ UNCHANGED <<globals, chartVars, inputVars, pageVars, disabled,
                        datasetsTask, lastAlert>>

\* The messages an awaited promise rejects with: fetch (a transport failure)
\* or response.json() (a body that is not JSON).
Rejections == {FetchRejection, JsonRejection}

\* uploadPDF_catch had hideLoading been written at the end of the try block
\* instead of in a finally block: a rejected await leaves the affordance shown.
uploadPDF_catch_NoFinally(task, message) ==
    /\ BagIn(task, tasks)
    /\ task.step = "pdf"
    /\ message \in Rejections
    /\ lastAlert' = UploadFailed(message)
    /\ status' = updateStatus(status, "pdf", "error")
    /\ Return(task)
    /\ UNCHANGED <<globals, chartVars, inputVars, pageVars, loading, disabled,
                   calls, succeeded, sourceOf, datasetsTask>>

\* The catch and finally blocks, entered from a rejected await.
uploadPDF_catch(task, message) ==
    /\ BagIn(task, tasks)
    /\ task.step = "pdf"
    /\ message \in Rejections
    /\ lastAlert' = UploadFailed(message)
    /\ status' = updateStatus(status, "pdf", "error")
    /\ loading' = hideLoading(loading, LoadingContext("pdf"))
    /\ Return(task)
    /\ UNCHANGED <<globals, chartVars, inputVars, pageVars, disabled,
                   calls, succeeded, sourceOf, datasetsTask>>

\* uploadPDF_then had toggleButton('extractBtn', true) been written in the
\* finally block: the extract step is unlocked whatever the backend answered.
uploadPDF_then_UnlocksAlways(task, result, prismThrows) ==
    /\ BagIn(task, tasks)
    /\ task.step = "pdf"
    /\ IF result.success
       THEN /\ currentMarkdownContent' = result.data
            /\ markdownContent' = result.data
            /\ IF prismThrows
               THEN /\ lastAlert' = UploadFailed(RenderError)
                    /\ status' = updateStatus(status, "pdf", "error")
                    /\ UNCHANGED <<shown, succeeded>>
               ELSE /\ shown' = showResult(shown, "markdownResult")
                    /\ status' = updateStatus(status, "pdf", "success")
                    /\ succeeded' = succeeded \cup {"pdf"}
                    /\ UNCHANGED lastAlert
       ELSE /\ lastAlert' = ConversionFailed(result.error)
            /\ status' = updateStatus(status, "pdf", "error")
            /\ UNCHANGED <<currentMarkdownContent, markdownContent, shown,
                           succeeded>>
    /\ disabled' = toggleButton(disabled, "extractBtn", TRUE)
    /\ loading' = hideLoading(loading, LoadingContext("pdf"))
    /\ Return(task)
    /\ UNCHANGED <<currentExtractedInfo, currentFactorCode, chartVars, inputVars,
                   factorCode, extraction, performanceStats, calls, sourceOf,
                   datasetsTask>>

\* `await response.json()` resolves with result; prismThrows says whether
\* Prism.highlightElement throws (the library did not load).
uploadPDF_then(task, result, prismThrows) ==
    /\ BagIn(task, tasks)
    /\ task.step = "pdf"
    /\ IF result.success
       THEN /\ currentMarkdownContent' = result.data
            /\ markdownContent' = result.data
            /\ IF prismThrows
               THEN /\ lastAlert' = UploadFailed(RenderError)
                    /\ status' = updateStatus(status, "pdf", "error")
                    /\ UNCHANGED <<shown, disabled, succeeded>>
               ELSE /\ shown' = showResult(shown, "markdownResult")
                    /\ status' = updateStatus(status, "pdf", "success")
                    /\ disabled' = toggleButton(disabled, "extractBtn", TRUE)
                    /\ succeeded' = succeeded \cup {"pdf"}
                    /\ UNCHANGED lastAlert
       ELSE /\ lastAlert' = ConversionFailed(result.error)
            /\ status' = updateStatus(status, "pdf", "error")
            /\ UNCHANGED <<currentMarkdownContent, markdownContent, shown,
                           disabled, succeeded>>
    /\ loading' = hideLoading(loading, LoadingContext("pdf"))
    /\ Return(task)
    /\ UNCHANGED <<currentExtractedInfo, currentFactorCode, chartVars, inputVars,
                   factorCode, extraction, performanceStats, calls, sourceOf,
                   datasetsTask>>

(***************************************************************************)
(* extractContent                                                          *)
(***************************************************************************)
\* extractContent had updateStatus been written above the precondition: an
\* invocation without a document alerts with the status already processing.
extractContent_StatusFirst ==
    IF currentMarkdownContent = ""
    THEN /\ lastAlert' = AlertUploadFirst
         /\ status' = updateStatus(status, "extract", "processing")
         /\ UNCHANGED <<globals, chartVars, inputVars, pageVars, loading, disabled,
                        taskVars, datasetsTask>>
    ELSE /\ CanCall
         /\ status' = updateStatus(status, "extract", "processing")
         /\ loading' = showLoading(loading, LoadingContext("extract"))
         /\ Suspend(Task("extract",
                         Request(NoFile, currentMarkdownContent, Undefined, "", "")))
         /\ UNCHANGED <<globals, chartVars, inputVars, pageVars, disabled,
                        datasetsTask, lastAlert>>

extractContent ==
    IF currentMarkdownContent = ""
    THEN /\ lastAlert' = AlertUploadFirst
         /\ UNCHANGED <<globals, chartVars, inputVars, pageVars, badgeVars,
                        taskVars, datasetsTask>>
    ELSE /\ CanCall
         /\ status' = updateStatus(status, "extract", "processing")
         /\ loading' = showLoading(loading, LoadingContext("extract"))
         /\ Suspend(Task("extract",
                         Request(NoFile, currentMarkdownContent, Undefined, "", "")))
         /\ UNCHANGED <<globals, chartVars, inputVars, pageVars, disabled,
                        datasetsTask, lastAlert>>

extractContent_catch(task, message) ==
    /\ BagIn(task, tasks)
    /\ task.step = "extract"
    /\ message \in Rejections
    /\ lastAlert' = ExtractionFailed(message)
    /\ status' = updateStatus(status, "extract", "error")
    /\ loading' = hideLoading(loading, LoadingContext("extract"))
    /\ Return(task)
    /\ UNCHANGED <<globals, chartVars, inputVars, pageVars, disabled,
                   calls, succeeded, sourceOf, datasetsTask>>

\* The global is assigned before displayExtractionResults runs, so a throw
\* there leaves the new info stored.
extractContent_then(task, result) ==
    /\ BagIn(task, tasks)
    /\ task.step = "extract"
    /\ IF result.success
       THEN LET display == displayExtractionResults(result.data, extraction) IN
            /\ currentExtractedInfo' = result.data
            /\ sourceOf' = [sourceOf EXCEPT !.info = task.body.markdown_content]
            /\ extraction' = display.view
            /\ IF display.threw
               THEN /\ lastAlert' = ExtractionFailed(RenderError)
                    /\ status' = updateStatus(status, "extract", "error")
                    /\ UNCHANGED <<shown, disabled, succeeded>>
               ELSE /\ shown' = showResult(shown, "extractionResult")
                    /\ status' = updateStatus(status, "extract", "success")
                    /\ disabled' = toggleButton(disabled, "generateBtn", TRUE)
                    /\ succeeded' = succeeded \cup {"extract"}
                    /\ UNCHANGED lastAlert
       ELSE /\ lastAlert' = ExtractionFailed(result.error)
            /\ status' = updateStatus(status, "extract", "error")
            /\ UNCHANGED <<currentExtractedInfo, extraction, shown, disabled,
                           succeeded, sourceOf>>
    /\ loading' = hideLoading(loading, LoadingContext("extract"))
    /\ Return(task)
    /\ UNCHANGED <<currentMarkdownContent, currentFactorCode, chartVars, inputVars,
                   markdownContent, factorCode, performanceStats, calls,
                   datasetsTask>>

(***************************************************************************)
(* generateFactor, editCode and saveCode                                   *)
(***************************************************************************)
\* Object.keys(v).length, for v neither null nor undefined.
ObjectKeysLength(v) ==
    CASE v.t = "object" -> Len(v.o)
      [] v.t = "array" -> Len(v.a)
      [] v.t = "string" -> Len(v.s)
      [] OTHER -> 0

\* generateFactor without its updateStatus('factor', 'processing').
generateFactor_NoProcessing ==
    IF ~Truthy(currentExtractedInfo) \/ ObjectKeysLength(currentExtractedInfo) = 0
    THEN /\ lastAlert' = AlertExtractFirst
         /\ UNCHANGED <<globals, chartVars, inputVars, pageVars, badgeVars,
                        taskVars, datasetsTask>>
    ELSE /\ CanCall
         /\ loading' = showLoading(loading, LoadingContext("factor"))
         /\ Suspend(Task("factor",
                         Request(NoFile, "", currentExtractedInfo, "", "")))
         /\ UNCHANGED <<globals, chartVars, inputVars, pageVars, status, disabled,
                        datasetsTask, lastAlert>>

generateFactor ==
    IF ~Truthy(currentExtractedInfo) \/ ObjectKeysLength(currentExtractedInfo) = 0
    THEN /\ lastAlert' = AlertExtractFirst
         /\ UNCHANGED <<globals, chartVars, inputVars, pageVars, badgeVars,
                        taskVars, datasetsTask>>
    ELSE /\ CanCall
         /\ status' = updateStatus(status, "factor", "processing")
         /\ loading' = showLoading(loading, LoadingContext("factor"))
         /\ Suspend(Task("factor",
                         Request(NoFile, "", currentExtractedInfo, "", "")))
         /\ UNCHANGED <<globals, chartVars, inputVars, pageVars, disabled,
                        datasetsTask, lastAlert>>

generateFactor_catch(task, message) ==
    /\ BagIn(task, tasks)
    /\ task.step = "factor"
    /\ message \in Rejections
    /\ lastAlert' = GenerationFailed(message)
    /\ status' = updateStatus(status, "factor", "error")
    /\ loading' = hideLoading(loading, LoadingContext("factor"))
    /\ Return(task)
    /\ UNCHANGED <<globals, chartVars, inputVars, pageVars, disabled,
                   calls, succeeded, sourceOf, datasetsTask>>

\* generateFactor_then had the three toggle calls been written after the
\* if/else instead of inside its success branch.
generateFactor_then_AlwaysEnables(task, result, prismThrows) ==
    /\ BagIn(task, tasks)
    /\ task.step = "factor"
    /\ IF result.success
       THEN /\ currentFactorCode' = result.data
            /\ factorCode' = result.data
            /\ sourceOf' = [sourceOf EXCEPT !.code = task.body.extracted_info]
            /\ IF prismThrows
               THEN /\ lastAlert' = GenerationFailed(RenderError)
                    /\ status' = updateStatus(status, "factor", "error")
                    /\ UNCHANGED <<shown, disabled, succeeded>>
               ELSE /\ shown' = showResult(shown, "factorResult")
                    /\ status' = updateStatus(status, "factor", "success")
                    /\ disabled' =
                           toggleInputs(
                               toggleButton(toggleButton(disabled, "editBtn", TRUE),
                                            "backtestBtn", TRUE),
                               {"datasetSelect", "startDate", "endDate"}, TRUE)
                    /\ succeeded' = succeeded \cup {"factor"}
                    /\ UNCHANGED lastAlert
       ELSE /\ lastAlert' = GenerationFailed(result.error)
            /\ status' = updateStatus(status, "factor", "error")
            /\ disabled' =
                   toggleInputs(
                       toggleButton(toggleButton(disabled, "editBtn", TRUE),
                                    "backtestBtn", TRUE),
                       {"datasetSelect", "startDate", "endDate"}, TRUE)
            /\ UNCHANGED <<currentFactorCode, factorCode, shown, succeeded,
                           sourceOf>>
    /\ loading' = hideLoading(loading, LoadingContext("factor"))
    /\ Return(task)
    /\ UNCHANGED <<currentMarkdownContent, currentExtractedInfo, chartVars,
                   inputVars, markdownContent, extraction, performanceStats,
                   calls, datasetsTask>>

generateFactor_then(task, result, prismThrows) ==
    /\ BagIn(task, tasks)
    /\ task.step = "factor"
    /\ IF result.success
       THEN /\ currentFactorCode' = result.data
            /\ factorCode' = result.data
            /\ sourceOf' = [sourceOf EXCEPT !.code = task.body.extracted_info]
            /\ IF prismThrows
               THEN /\ lastAlert' = GenerationFailed(RenderError)
                    /\ status' = updateStatus(status, "factor", "error")
                    /\ UNCHANGED <<shown, disabled, succeeded>>
               ELSE /\ shown' = showResult(shown, "factorResult")
                    /\ status' = updateStatus(status, "factor", "success")
                    /\ disabled' =
                           toggleInputs(
                               toggleButton(toggleButton(disabled, "editBtn", TRUE),
                                            "backtestBtn", TRUE),
                               {"datasetSelect", "startDate", "endDate"}, TRUE)
                    /\ succeeded' = succeeded \cup {"factor"}
                    /\ UNCHANGED lastAlert
       ELSE /\ lastAlert' = GenerationFailed(result.error)
            /\ status' = updateStatus(status, "factor", "error")
            /\ UNCHANGED <<currentFactorCode, factorCode, shown, disabled,
                           succeeded, sourceOf>>
    /\ loading' = hideLoading(loading, LoadingContext("factor"))
    /\ Return(task)
    /\ UNCHANGED <<currentMarkdownContent, currentExtractedInfo, chartVars,
                   inputVars, markdownContent, extraction, performanceStats,
                   calls, datasetsTask>>

\* editCode: the editor takes the stored code and the modal is shown.
editCode ==
    /\ codeEditor' = currentFactorCode
    /\ modal' = "shown"
    /\ UNCHANGED <<globals, chartVars, pdfFile, datasetOptions, datasetValue,
                   pageVars, badgeVars, taskVars, datasetsTask, lastAlert>>

\* saveCode had it rendered the editor's text without storing it.
saveCode_RendersOnly ==
    /\ factorCode' = codeEditor
    /\ modal' = IF modal = "none" THEN "none" ELSE "hidden"
    /\ UNCHANGED <<globals, chartVars, pdfFile, datasetOptions, datasetValue,
                   codeEditor, markdownContent, extraction, performanceStats,
                   shown, badgeVars, taskVars, datasetsTask, lastAlert>>

\* saveCode: the stored code and #factorCode take the editor's text, then the
\* modal is hidden; with no modal instance yet, getInstance answers null and
\* modal.hide() throws after the two assignments.
saveCode ==
    /\ currentFactorCode' = codeEditor
    /\ factorCode' = codeEditor
    /\ modal' = IF modal = "none" THEN "none" ELSE "hidden"
    /\ UNCHANGED <<currentMarkdownContent, currentExtractedInfo, chartVars,
                   pdfFile, datasetOptions, datasetValue, codeEditor,
                   markdownContent, extraction, performanceStats, shown,
                   badgeVars, taskVars, datasetsTask, lastAlert>>

(***************************************************************************)
(* loadDatasets, which the DOMContentLoaded listener calls once            *)
(***************************************************************************)
\* A rejected await is logged to the console and nothing else happens.
loadDatasets_catch ==
    /\ datasetsTask = "pending"
    /\ datasetsTask' = "done"
    /\ UNCHANGED <<globals, chartVars, inputVars, pageVars, badgeVars, taskVars,
                   lastAlert>>

\* The select is emptied down to its placeholder option, which unselects what
\* was selected, then takes one option per dataset; with result.datasets
\* missing (hasDatasets false) forEach throws after the select was emptied.
loadDatasets_then(hasDatasets, ids) ==
    /\ datasetsTask = "pending"
    /\ datasetsTask' = "done"
    /\ datasetOptions' = IF hasDatasets THEN {""} \cup ids ELSE {""}
    /\ datasetValue' = ""
    /\ UNCHANGED <<globals, chartVars, pdfFile, codeEditor, modal, pageVars,
                   badgeVars, taskVars, lastAlert>>

(***************************************************************************)
(* runBacktest, displayBacktestResults and drawReturnsChart                *)
(***************************************************************************)
\* drawReturnsChart without the destroy of the instance the handle refers to.
drawReturnsChart_NoDestroy(hasData, handle, instances) ==
    IF hasData
    THEN [threw |-> FALSE, backtestChart |-> Len(instances) + 1,
          charts |-> Append(instances, TRUE)]
    ELSE [threw |-> TRUE, backtestChart |-> handle, charts |-> instances]

\* drawReturnsChart(data) on the handle and the instances: the instance the
\* handle refers to is destroyed, then `new Chart` builds its configuration
\* from data (a TypeError when data is undefined) and the handle takes the
\* new instance.
drawReturnsChart(hasData, handle, instances) ==
    LET destroyed == IF handle # 0 THEN [instances EXCEPT ![handle] = FALSE]
                     ELSE instances
    IN  IF hasData
        THEN [threw |-> FALSE, backtestChart |-> Len(instances) + 1,
              charts |-> Append(destroyed, TRUE)]
        ELSE [threw |-> TRUE, backtestChart |-> handle, charts |-> destroyed]

\* displayBacktestResults(results): Object.entries(results.performance_stats)
\* throws when the statistics are missing; otherwise they are rendered and
\* the chart is drawn.
displayBacktestResults(results, stats, handle, instances) ==
    IF ~results.stats
    THEN [threw |-> TRUE, performanceStats |-> stats, backtestChart |-> handle,
          charts |-> instances]
    ELSE LET chart == drawReturnsChart(results.returns, handle, instances) IN
         [threw |-> chart.threw, performanceStats |-> TRUE,
          backtestChart |-> chart.backtestChart, charts |-> chart.charts]

\* runBacktest had the dataset been checked before the code.
runBacktest_DatasetFirst ==
    IF datasetValue = ""
    THEN /\ lastAlert' = AlertSelectDataset
         /\ UNCHANGED <<globals, chartVars, inputVars, pageVars, badgeVars,
                        taskVars, datasetsTask>>
    ELSE IF currentFactorCode = ""
    THEN /\ lastAlert' = AlertGenerateFirst
         /\ UNCHANGED <<globals, chartVars, inputVars, pageVars, badgeVars,
                        taskVars, datasetsTask>>
    ELSE /\ CanCall
         /\ status' = updateStatus(status, "backtest", "processing")
         /\ loading' = showLoading(loading, LoadingContext("backtest"))
         /\ Suspend(Task("backtest",
                         Request(NoFile, "", Undefined, currentFactorCode,
                                 datasetValue)))
         /\ UNCHANGED <<globals, chartVars, inputVars, pageVars, disabled,
                        datasetsTask, lastAlert>>

runBacktest ==
    IF currentFactorCode = ""
    THEN /\ lastAlert' = AlertGenerateFirst
         /\ UNCHANGED <<globals, chartVars, inputVars, pageVars, badgeVars,
                        taskVars, datasetsTask>>
    ELSE IF datasetValue = ""
    THEN /\ lastAlert' = AlertSelectDataset
         /\ UNCHANGED <<globals, chartVars, inputVars, pageVars, badgeVars,
                        taskVars, datasetsTask>>
    ELSE /\ CanCall
         /\ status' = updateStatus(status, "backtest", "processing")
         /\ loading' = showLoading(loading, LoadingContext("backtest"))
         /\ Suspend(Task("backtest",
                         Request(NoFile, "", Undefined, currentFactorCode,
                                 datasetValue)))
         /\ UNCHANGED <<globals, chartVars, inputVars, pageVars, disabled,
                        datasetsTask, lastAlert>>

runBacktest_catch(task, message) ==
    /\ BagIn(task, tasks)
    /\ task.step = "backtest"
    /\ message \in Rejections
    /\ lastAlert' = BacktestFailed(message)
    /\ status' = updateStatus(status, "backtest", "error")
    /\ loading' = hideLoading(loading, LoadingContext("backtest"))
    /\ Return(task)
    /\ UNCHANGED <<globals, chartVars, inputVars, pageVars, disabled,
                   calls, succeeded, sourceOf, datasetsTask>>

runBacktest_then(task, result) ==
    /\ BagIn(task, tasks)
    /\ task.step = "backtest"
    /\ IF result.success
       THEN LET display == displayBacktestResults(result.data, performanceStats,
                                                  backtestChart, charts) IN
            /\ performanceStats' = display.performanceStats
            /\ backtestChart' = display.backtestChart
            /\ charts' = display.charts
            /\ IF display.threw
               THEN /\ lastAlert' = BacktestFailed(RenderError)
                    /\ status' = updateStatus(status, "backtest", "error")
                    /\ UNCHANGED <<shown, succeeded>>
               ELSE /\ shown' = showResult(shown, "backtestResult")
                    /\ status' = updateStatus(status, "backtest", "success")
                    /\ succeeded' = succeeded \cup {"backtest"}
                    /\ UNCHANGED lastAlert
       ELSE /\ lastAlert' = BacktestFailed(result.error)
            /\ status' = updateStatus(status, "backtest", "error")
            /\ UNCHANGED <<performanceStats, chartVars, shown, succeeded>>
    /\ loading' = hideLoading(loading, LoadingContext("backtest"))
    /\ Return(task)
    /\ UNCHANGED <<globals, inputVars, markdownContent, factorCode, extraction,
                   disabled, calls, sourceOf, datasetsTask>>

(***************************************************************************)
(* What the user does to the inputs                                        *)
(***************************************************************************)
SelectFile(file) ==
    /\ file # pdfFile
    /\ pdfFile' = file
    /\ UNCHANGED <<globals, chartVars, datasetOptions, datasetValue, codeEditor,
                   modal, pageVars, badgeVars, taskVars, datasetsTask, lastAlert>>

\* A disabled select cannot be changed.
SelectDataset(value) ==
    /\ ~disabled["datasetSelect"]
    /\ value \in datasetOptions
    /\ value # datasetValue
    /\ datasetValue' = value
    /\ UNCHANGED <<globals, chartVars, pdfFile, datasetOptions, codeEditor,
                   modal, pageVars, badgeVars, taskVars, datasetsTask, lastAlert>>

\* The editor is typed in while its modal is shown.
TypeCode(text) ==
    /\ modal = "shown"
    /\ text # codeEditor
    /\ codeEditor' = text
    /\ UNCHANGED <<globals, chartVars, pdfFile, datasetOptions, datasetValue,
                   modal, pageVars, badgeVars, taskVars, datasetsTask, lastAlert>>

(***************************************************************************)
(* The specification                                                       *)
(***************************************************************************)
\* The extraction card before anything is extracted: its elements are empty.
InitialExtraction == ExtractionView(<<>>, <<>>, <<>>, Records(<<>>))

\* The state once the script has run and the DOMContentLoaded listener has
\* called loadDatasets, which is suspended at its fetch: the globals as
\* declared and the page as served.
PageLoad ==
    /\ currentMarkdownContent = ""
    /\ currentExtractedInfo = EmptyInfo
    /\ currentFactorCode = ""
    /\ backtestChart = 0
    /\ charts = <<>>
    /\ status = InitialStatus
    /\ loading = [s \in Steps |-> FALSE]
    /\ disabled = InitialDisabled
    /\ shown = {}
    /\ pdfFile = NoFile
    /\ datasetOptions = {""}
    /\ datasetValue = ""
    /\ codeEditor = ""
    /\ modal = "none"
    /\ markdownContent = ""
    /\ factorCode = ""
    /\ extraction = InitialExtraction
    /\ performanceStats = FALSE
    /\ tasks = EmptyBag
    /\ datasetsTask = "pending"
    /\ lastAlert = NoAlert
    /\ calls = 0
    /\ succeeded = {}
    /\ sourceOf = NoSource

\* The state after the first `stage` steps of the workflow each ran once, in
\* order and with success, from PageLoad: loadDatasets answered, the file
\* chosen and uploaded as "md1" (stage 1), MomInfo extracted from it (stage 2),
\* "code1" generated from that (stage 3).  Stage 0 is PageLoad.  Next reaches
\* each of these states from PageLoad (LoadSpec with MaxCalls = 3 reaches
\* StageState(3)); the specification starts in any of them so that MaxCalls
\* bounds the calls made from there on.
StageState(stage) ==
    /\ currentMarkdownContent = IF stage >= 1 THEN "md1" ELSE ""
    /\ currentExtractedInfo = IF stage >= 2 THEN MomInfo ELSE EmptyInfo
    /\ currentFactorCode = IF stage >= 3 THEN "code1" ELSE ""
    /\ backtestChart = 0
    /\ charts = <<>>
    /\ status = [s \in Steps |->
                    IF \/ s = "pdf" /\ stage >= 1
                       \/ s = "extract" /\ stage >= 2
                       \/ s = "factor" /\ stage >= 3
                    THEN updateStatus(updateStatus(InitialStatus, s, "processing"),
                                      s, "success")[s]
                    ELSE InitialStatus[s]]
    /\ loading = [s \in Steps |-> FALSE]
    /\ disabled = [c \in Controls |->
                      IF \/ c = "extractBtn" /\ stage >= 1
                         \/ c = "generateBtn" /\ stage >= 2
                         \/ c \notin {"extractBtn", "generateBtn"} /\ stage >= 3
                      THEN FALSE ELSE InitialDisabled[c]]
    /\ shown = {"markdownResult" : x \in {1} \cap 1..stage}
                  \cup {"extractionResult" : x \in {2} \cap 1..stage}
                  \cup {"factorResult" : x \in {3} \cap 1..stage}
    /\ pdfFile = IF stage >= 1 THEN "paper.pdf" ELSE NoFile
    /\ datasetOptions = IF stage >= 1 THEN {""} \cup DatasetIds ELSE {""}
    /\ datasetValue = ""
    /\ codeEditor = ""
    /\ modal = "none"
    /\ markdownContent = IF stage >= 1 THEN "md1" ELSE ""
    /\ factorCode = IF stage >= 3 THEN "code1" ELSE ""
    /\ extraction = IF stage >= 2
                    THEN displayExtractionResults(MomInfo, InitialExtraction).view
                    ELSE InitialExtraction
    /\ performanceStats = FALSE
    /\ tasks = EmptyBag
    /\ datasetsTask = IF stage >= 1 THEN "done" ELSE "pending"
    /\ lastAlert = NoAlert
    /\ succeeded = {"pdf" : x \in {1} \cap 1..stage}
                      \cup {"extract" : x \in {2} \cap 1..stage}
                      \cup {"factor" : x \in {3} \cap 1..stage}
    /\ sourceOf = [info |-> IF stage >= 2 THEN "md1" ELSE NoSource.info,
                   code |-> IF stage >= 3 THEN MomInfo ELSE NoSource.code]

Init == \E stage \in 0..3 : StageState(stage) /\ calls = 0

\* The suspended invocation task resumes: its await rejected, or resolved with
\* one of the results the backend can answer.  These are the steps Next
\* takes for a suspended invocation.
Settle(task) ==
    \/ \E message \in Rejections :
          \/ uploadPDF_catch(task, message)
          \/ extractContent_catch(task, message)
          \/ generateFactor_catch(task, message)
          \/ runBacktest_catch(task, message)
    \/ \E prismThrows \in BOOLEAN :
          \/ \E data \in MarkdownPayloads :
                \/ uploadPDF_then(task, Success(data), prismThrows)
                \/ uploadPDF_then(task, Failure(data), prismThrows)
          \/ \E data \in CodePayloads :
                \/ generateFactor_then(task, Success(data), prismThrows)
                \/ generateFactor_then(task, Failure(data), prismThrows)
    \/ \E data \in InfoPayloads :
          \/ extractContent_then(task, Success(data))
          \/ extractContent_then(task, Failure(data))
    \/ \E data \in BacktestPayloads :
          \/ runBacktest_then(task, Success(data))
          \/ runBacktest_then(task, Failure(data))

Next ==
    \/ uploadPDF
    \/ extractContent
    \/ generateFactor
    \/ runBacktest
    \/ editCode
    \/ saveCode
    \/ loadDatasets_catch
    \/ \E hasDatasets \in BOOLEAN : loadDatasets_then(hasDatasets, DatasetIds)
    \/ \E file \in Files \cup {NoFile} : SelectFile(file)
    \/ \E value \in DatasetIds \cup {""} : SelectDataset(value)
    \/ \E text \in EditedTexts : TypeCode(text)
    \/ \E task \in BagToSet(tasks) :
          \/ \E message \in Rejections :
                \/ uploadPDF_catch(task, message)
                \/ extractContent_catch(task, message)
                \/ generateFactor_catch(task, message)
                \/ runBacktest_catch(task, message)
          \/ \E prismThrows \in BOOLEAN :
                \/ \E data \in MarkdownPayloads :
                      \/ uploadPDF_then(task, Success(data), prismThrows)
                      \/ uploadPDF_then(task, Failure(data), prismThrows)
                \/ \E data \in CodePayloads :
                      \/ generateFactor_then(task, Success(data), prismThrows)
                      \/ generateFactor_then(task, Failure(data), prismThrows)
          \/ \E data \in InfoPayloads :
                \/ extractContent_then(task, Success(data))
                \/ extractContent_then(task, Failure(data))
          \/ \E data \in BacktestPayloads :
                \/ runBacktest_then(task, Success(data))
                \/ runBacktest_then(task, Failure(data))

Spec == Init /\ [][Next]_vars

\* The same workflow from the page load alone.
LoadSpec == PageLoad /\ [][Next]_vars

\* Every invocation that can be suspended.
TaskValues ==
    {Task("pdf", Request(file, "", Undefined, "", "")) : file \in Files}
    \cup {Task("extract", Request(NoFile, md, Undefined, "", "")) :
             md \in MarkdownPayloads}
    \cup {Task("factor", Request(NoFile, "", info, "", "")) : info \in InfoPayloads}
    \cup {Task("backtest", Request(NoFile, "", Undefined, code, dataset)) :
             code \in CodePayloads \cup EditedTexts, dataset \in DatasetIds}

\* Some suspended invocation resumes.
Resume == \E task \in BagToSet(tasks) : Settle(task)

\* The workflow without the code editor, whose actions neither suspend nor
\* resume an invocation.
WorkflowNext ==
    \/ uploadPDF
    \/ extractContent
    \/ generateFactor
    \/ runBacktest
    \/ loadDatasets_catch
    \/ \E hasDatasets \in BOOLEAN : loadDatasets_then(hasDatasets, DatasetIds)
    \/ \E file \in Files \cup {NoFile} : SelectFile(file)
    \/ \E value \in DatasetIds \cup {""} : SelectDataset(value)
    \/ Resume

\* Every fetch settles (the transport answers or times out) and the event
\* loop runs the continuation of every settled promise, so while invocations
\* are suspended one of them eventually resumes.
FairSpec == Init /\ [][WorkflowNext]_vars /\ WF_vars(Resume)

(***************************************************************************)
(* What a step of the workflow looks like from outside                     *)
(***************************************************************************)
\* Some invocation of step is suspended.
InFlight(step) == \E task \in BagToSet(tasks) : task.step = step

\* This step issues the request of a new invocation of step.
Calling(step) ==
    \E task \in BagToSet(tasks') :
        task.step = step /\ tasks' = tasks (+) SetToBag({task})

\* This step ends an invocation of step.
Completing(step) ==
    \E task \in BagToSet(tasks) :
        task.step = step /\ tasks' = tasks (-) SetToBag({task})

\* This step issues no request.
NoRequest == \A step \in Steps : ~Calling(step)

\* This step alerts message and does nothing else: no request, no status, no
\* loading affordance, no enablement, no pipeline state, nothing on the page.
OnlyAlerts(message) ==
    /\ lastAlert' = message
    /\ UNCHANGED <<globals, chartVars, inputVars, pageVars, badgeVars, taskVars,
                   datasetsTask>>

\* The suspended invocations are among TaskValues, at most MaxInFlight.
TasksOK == BagToSet(tasks) \subseteq TaskValues /\ BagCardinality(tasks) <= MaxInFlight

(***************************************************************************)
(* C1.  Each of uploadPDF, extractContent, generateFactor and runBacktest  *)
(* that passes its precondition shows the loading affordance of its step   *)
(* and, however it ends (success:true, success:false, fetch rejecting, a   *)
(* body that is not JSON, the success branch throwing), ends: the          *)
(* affordance shown is eventually cleared, no invocation stays suspended,  *)
(* and the step that ends an invocation leaves the affordance cleared and  *)
(* the status of the step success or error.                                *)
(***************************************************************************)
C1_Ends(step) ==
    Completing(step) =>
        /\ ~loading'[step]
        /\ HasStatus(step, "success")' \/ HasStatus(step, "error")'

C1_LoadingCleared ==
    /\ \A step \in Steps :
          (InFlight(step) \/ loading[step]) ~> (~InFlight(step) /\ ~loading[step])
    /\ [][\A step \in Steps :
            /\ Calling(step) => loading'[step]
            /\ C1_Ends(step)]_vars

\* An extraction whose rendering threw has ended with the affordance cleared.
C1_Witness ==
    /\ lastAlert = ExtractionFailed(RenderError)
    /\ HasStatus("extract", "error")
    /\ ~loading["extract"]
    /\ ~InFlight("extract")
(***************************************************************************)
(* C2.  For every step: a call that passes its precondition sets the       *)
(* status of the step to processing; the status changes to success or      *)
(* error only in a step that ends a call of that step; and a pending       *)
(* status never changes to anything but processing.                        *)
(***************************************************************************)
C2_StatusProtocol ==
    [][\A step \in Steps :
          /\ Calling(step) => HasStatus(step, "processing")'
          /\ ( /\ status'[step] # status[step]
               /\ HasStatus(step, "success")' \/ HasStatus(step, "error")' )
                => Completing(step)
          /\ HasStatus(step, "pending")
                => HasStatus(step, "pending")' \/ HasStatus(step, "processing")']_vars

\* generateFactor was called on the extracted info while its status was still
\* pending, and now is processing with its request in flight.
C2_Witness ==
    /\ HasStatus("factor", "processing")
    /\ InFlight("factor")
    /\ "factor" \notin succeeded
    /\ HasStatus("extract", "success")

(***************************************************************************)
(* C3.  uploadPDF with no file selected, extractContent with no stored     *)
(* document content and generateFactor with absent or empty extracted info *)
(* alert their instruction and do nothing else: no request is issued, no   *)
(* status, loading affordance or enablement changes, and the pipeline      *)
(* state stays as it was.                                                  *)
(***************************************************************************)
C3_PreconditionFailure ==
    [][/\ (pdfFile = NoFile /\ uploadPDF) => OnlyAlerts(AlertSelectPdf)
       /\ (currentMarkdownContent = "" /\ extractContent)
             => OnlyAlerts(AlertUploadFirst)
       /\ ( /\ Nullish(currentExtractedInfo) \/ currentExtractedInfo = EmptyInfo
            /\ generateFactor )
             => OnlyAlerts(AlertExtractFirst)]_vars

\* generateFactor was invoked with the extracted info absent: a response of
\* the extract step had carried no extracted_info.
C3_Witness ==
    /\ lastAlert = AlertExtractFirst
    /\ Nullish(currentExtractedInfo)
    /\ HasStatus("factor", "pending")
    /\ ~loading["factor"]
    /\ ~InFlight("factor")

(***************************************************************************)
(* C4, as claimed.  Whenever no dataset is selected runBacktest issues no  *)
(* request and alerts the dataset message, and whenever no generated code  *)
(* exists it issues no request and alerts the code message.                *)
(***************************************************************************)
C4_AsClaimed ==
    [][/\ (datasetValue = "" /\ runBacktest)
             => NoRequest /\ lastAlert' = AlertSelectDataset
       /\ (currentFactorCode = "" /\ runBacktest)
             => NoRequest /\ lastAlert' = AlertGenerateFirst]_vars

(***************************************************************************)
(* C4, amended.  Whenever no generated code exists runBacktest issues no   *)
(* request and alerts the code message; whenever generated code exists and *)
(* no dataset is selected it issues no request and alerts the dataset      *)
(* message.  Either way nothing else changes.                              *)
(***************************************************************************)
C4_FailFast ==
    [][/\ (currentFactorCode = "" /\ runBacktest)
             => NoRequest /\ OnlyAlerts(AlertGenerateFirst)
       /\ (currentFactorCode # "" /\ datasetValue = "" /\ runBacktest)
             => NoRequest /\ OnlyAlerts(AlertSelectDataset)]_vars

\* runBacktest was invoked with code generated and no dataset selected.
C4_Witness ==
    /\ lastAlert = AlertSelectDataset
    /\ currentFactorCode # ""
    /\ datasetValue = ""
    /\ HasStatus("backtest", "pending")
    /\ ~InFlight("backtest")

(***************************************************************************)
(* C5.  For every step, a response with success false and a rejected await *)
(* set the status of the step to error, alert the failure of that step and *)
(* change the enablement of no control: the controls disabled before the   *)
(* failure is handled (the backtest button and the dataset and date inputs *)
(* when generateFactor fails) are disabled after it.                       *)
(***************************************************************************)
\* The alerts of a failure of step.
FailureAlerts(step) ==
    CASE step = "pdf" ->
            {ConversionFailed(Failure("").error)}
            \cup {UploadFailed(message) : message \in Rejections}
      [] step = "extract" ->
            {ExtractionFailed(message) : message \in Rejections \cup {Failure("").error}}
      [] step = "factor" ->
            {GenerationFailed(message) : message \in Rejections \cup {Failure("").error}}
      [] step = "backtest" ->
            {BacktestFailed(message) : message \in Rejections \cup {Failure("").error}}

\* This step handles a failure of the invocation task: its await rejected, or
\* the backend answered success false.
FailureOf(task) ==
    \/ \E message \in Rejections :
          \/ uploadPDF_catch(task, message)
          \/ extractContent_catch(task, message)
          \/ generateFactor_catch(task, message)
          \/ runBacktest_catch(task, message)
    \/ \E prismThrows \in BOOLEAN :
          \/ \E data \in MarkdownPayloads :
                uploadPDF_then(task, Failure(data), prismThrows)
          \/ \E data \in CodePayloads :
                generateFactor_then(task, Failure(data), prismThrows)
    \/ \E data \in InfoPayloads : extractContent_then(task, Failure(data))
    \/ \E data \in BacktestPayloads : runBacktest_then(task, Failure(data))

C5_FailureSetsError ==
    [][\A task \in BagToSet(tasks) :
          FailureOf(task) =>
              /\ HasStatus(task.step, "error")'
              /\ lastAlert' \in FailureAlerts(task.step)
              /\ disabled' = disabled]_vars

\* The scenario: the backend answered success false to generateFactor, the
\* status is error and the backtest step is still locked.
C5_Witness ==
    /\ lastAlert = GenerationFailed("quota exceeded")
    /\ HasStatus("factor", "error")
    /\ \A c \in {"backtestBtn", "datasetSelect", "startDate", "endDate"} : disabled[c]
    /\ ~InFlight("factor")

(***************************************************************************)
(* C6.  A control of a later step is enabled only if a call of the step    *)
(* before it has completed in success (the extract button: upload; the     *)
(* generate button: extract; the edit and backtest buttons and the dataset *)
(* and date inputs: generate); and a call that completes in success leaves *)
(* those controls enabled and the payload of its response stored.          *)
(***************************************************************************)
DownstreamOf(step) ==
    CASE step = "pdf" -> {"extractBtn"}
      [] step = "extract" -> {"generateBtn"}
      [] step = "factor" -> {"editBtn", "backtestBtn", "datasetSelect",
                             "startDate", "endDate"}
      [] step = "backtest" -> {}

\* The controls of the step after `step` are enabled.
Unlocked(step) == \A c \in DownstreamOf(step) : ~disabled[c]

\* Every enabled control follows a success of the step before it.
Gated == \A step \in Steps :
            \A c \in DownstreamOf(step) : ~disabled[c] => step \in succeeded

C6_Gating ==
    /\ Gated
    /\ [][Gated']_vars
    /\ [][\A task \in BagToSet(tasks) :
            /\ (Completing("pdf") /\ HasStatus("pdf", "success")') =>
                  \A data \in MarkdownPayloads, prismThrows \in BOOLEAN :
                     uploadPDF_then(task, Success(data), prismThrows)
                     => Unlocked("pdf")' /\ currentMarkdownContent' = data
            /\ (Completing("extract") /\ HasStatus("extract", "success")') =>
                  \A data \in InfoPayloads :
                     extractContent_then(task, Success(data))
                     => Unlocked("extract")' /\ currentExtractedInfo' = data
            /\ (Completing("factor") /\ HasStatus("factor", "success")') =>
                  \A data \in CodePayloads, prismThrows \in BOOLEAN :
                     generateFactor_then(task, Success(data), prismThrows)
                     => Unlocked("factor")' /\ currentFactorCode' = data]_vars

\* An upload completed in success and unlocked the extract step, while the
\* generate step, no extraction having succeeded, is still locked.
C6_Witness ==
    /\ calls > 0
    /\ succeeded = {"pdf"}
    /\ HasStatus("pdf", "success")
    /\ currentMarkdownContent = "md2"
    /\ ~disabled["extractBtn"]
    /\ disabled["generateBtn"]

(***************************************************************************)
(* The key factors a response of the extract step can carry, and the       *)
(* specification that feeds them to extractContent.                        *)
(***************************************************************************)
\* The longest sequence of factors fed.
MaxFactors == 2

FullFactor ==
    Obj(<<Pair("name", Text("size")), Pair("description", Text("market cap")),
          Pair("type", Text("style"))>>)
EmptyNameFactor == Obj(<<Pair("name", Str(<<>>)), Pair("type", Text("style"))>>)

\* What an element of a sequence of factors can be.
FactorElements == {Null, Obj(<<>>), MomFactor, FullFactor, EmptyNameFactor, Num("5")}
FactorSequences == UNION {[1..n -> FactorElements] : n \in 0..MaxFactors}

\* Texts JSON.parse rejects, and texts it parses to something not an array.
InvalidTexts ==
    {<<P("[")>>, <<W("momentum")>>,
     <<P("["), S(<<W("mom")>>), P(","), P("]")>>,
     <<P("{"), S(<<W("name")>>), P("}")>>}
NonSequenceTexts ==
    {JSONStringify(MomFactor), <<N("5")>>, <<S(<<W("mom")>>)>>, <<W("null")>>}

Mappings ==
    {Obj(<<>>),
     Obj(<<Pair("momentum", Text("12m return")), Pair("size", Num("5"))>>),
     Obj(<<Pair("value", MomFactor)>>)}

SequenceInputs == {Arr(factors) : factors \in FactorSequences}
SequenceTextInputs == {Str(JSONStringify(Arr(factors))) : factors \in FactorSequences}
TextInputs ==
    SequenceTextInputs \cup {Str(text) : text \in InvalidTexts \cup NonSequenceTexts}
    \cup {Str(<<>>)}

\* key_factors of every shape; Undefined stands for its absence.
KeyFactorsInputs ==
    SequenceInputs \cup TextInputs \cup Mappings
    \cup {Undefined, Null, Num("0"), Num("5"), Bool(TRUE), Bool(FALSE)}

\* The extracted_info carrying kf as its key_factors.
InfoOf(kf) == IF kf = Undefined THEN EmptyInfo ELSE Obj(<<Pair("key_factors", kf)>>)

\* The document is uploaded; from there extractContent is called and the
\* backend answers success with key factors of any shape.
NormInit == StageState(1) /\ calls = 0

NormNext ==
    \/ extractContent
    \/ \E task \in BagToSet(tasks) :
          \E kf \in KeyFactorsInputs : extractContent_then(task, Success(InfoOf(kf)))

NormSpec == NormInit /\ [][NormNext]_vars

\* This step is extractContent receiving success with key_factors = kf.
Extracts(kf) ==
    \E task \in BagToSet(tasks) : extractContent_then(task, Success(InfoOf(kf)))

\* This step rendered the extraction results without throwing.
DisplayedOK == HasStatus("extract", "success")'

(***************************************************************************)
(* C7, as claimed.  For key_factors a sequence (elements lacking fields    *)
(* included), a text (the JSON encoding of a sequence, or not JSON), a     *)
(* mapping or absent, displayExtractionResults does not throw and shows    *)
(* what the resolution order documents: for a sequence one record per      *)
(* element with placeholders for the fields it lacks; for a text the same  *)
(* records when it parses to a sequence, the format-error marker when it   *)
(* parses to something else and the parse-failure marker with the text     *)
(* when it does not parse; for a mapping one record per entry; when absent *)
(* the nothing-extracted marker.                                           *)
(***************************************************************************)
\* The record documented for element e: each field absent or falsy takes its
\* placeholder.
DocumentedRecord(e) ==
    LET Field(key, placeholder) ==
            IF Nullish(e) THEN placeholder.s
            ELSE TemplateString(Or(Get(e, <<W(key)>>), placeholder))
    IN  [name |-> Field("name", UnknownFactor),
         description |-> Field("description", NoDescription),
         type |-> Field("type", Uncategorized)]

DocumentedRecords(factors) ==
    Records([i \in 1..Len(factors) |-> DocumentedRecord(factors[i])])

\* What is documented for key_factors = kf of one of the shape variants.
Documented(kf) ==
    IF IsArray(kf) THEN DocumentedRecords(kf.a)
    ELSE IF IsString(kf) THEN
        LET parsed == JSONParse(kf.s) IN
        IF ~parsed.ok THEN ParseFailureMarker(kf.s)
        ELSE IF IsArray(parsed.val) THEN DocumentedRecords(parsed.val.a)
        ELSE FormatErrorMarker
    ELSE IF kf.t = "object" THEN MapEntries(kf.o)
    ELSE NothingExtractedMarker

ShapeVariants == SequenceInputs \cup TextInputs \cup Mappings \cup {Undefined, Null}

C7_AsClaimed ==
    [][\A kf \in ShapeVariants :
          Extracts(kf) => DisplayedOK /\ extraction'.keyFactors = Documented(kf)]_vars

(***************************************************************************)
(* C8, as claimed.  For a sequence given directly, every element yields a  *)
(* record in which each of name, description and type the element lacks is *)
(* its placeholder and each it has is output unchanged; and the text that  *)
(* is the JSON encoding of a sequence yields exactly what the sequence     *)
(* given directly yields.                                                  *)
(***************************************************************************)
\* The record of element e when a field counts as missing only if e has no
\* such property.
PreservingRecord(e) ==
    LET Field(key, placeholder) ==
            IF Nullish(e) \/ Get(e, <<W(key)>>) = Undefined THEN placeholder.s
            ELSE TemplateString(Get(e, <<W(key)>>))
    IN  [name |-> Field("name", UnknownFactor),
         description |-> Field("description", NoDescription),
         type |-> Field("type", Uncategorized)]

C8_AsClaimed ==
    [][\A factors \in FactorSequences :
          /\ Extracts(Arr(factors)) =>
                /\ DisplayedOK
                /\ extraction'.keyFactors =
                      Records([i \in 1..Len(factors) |-> PreservingRecord(factors[i])])
          /\ Extracts(Str(JSONStringify(Arr(factors)))) =>
                LET direct == displayExtractionResults(InfoOf(Arr(factors)), extraction)
                IN  /\ DisplayedOK
                    /\ ~direct.threw
                    /\ extraction'.keyFactors = direct.view.keyFactors]_vars

(***************************************************************************)
(* C9, as claimed.  The nothing-extracted marker is shown only for         *)
(* key_factors absent or null; every text is handled by the text branch:   *)
(* it shows records when it parses to a sequence, the format-error marker  *)
(* when it parses to something else, the parse-failure marker with the raw *)
(* text when it does not parse; and the three markers differ.              *)
(***************************************************************************)
C9_AsClaimed ==
    [][/\ \A kf \in KeyFactorsInputs :
             ( /\ Extracts(kf)
               /\ DisplayedOK
               /\ extraction'.keyFactors = NothingExtractedMarker )
             => Nullish(kf)
       /\ \A kf \in TextInputs :
             Extracts(kf) =>
                LET parsed == JSONParse(kf.s) IN
                /\ DisplayedOK
                /\ IF ~parsed.ok
                   THEN extraction'.keyFactors = ParseFailureMarker(kf.s)
                   ELSE IF IsArray(parsed.val)
                        THEN extraction'.keyFactors.kind = "records"
                   ELSE extraction'.keyFactors = FormatErrorMarker
       /\ \A raw \in InvalidTexts \cup {<<>>} :
             Cardinality({FormatErrorMarker, ParseFailureMarker(raw),
                          NothingExtractedMarker}) = 3]_vars

(***************************************************************************)
(* C10.  At most one chart instance is live and the handle refers to the   *)
(* instance created last; whenever the status of the backtest step is      *)
(* success, that is after each rendering that succeeded, whatever the      *)
(* order in which the backtests completed, exactly one instance is live,   *)
(* the one the handle refers to.                                           *)
(***************************************************************************)
LiveCharts == {i \in 1..Len(charts) : charts[i]}

C10_OneChart ==
    /\ Cardinality(LiveCharts) <= 1
    /\ backtestChart = Len(charts)
    /\ LiveCharts \subseteq {backtestChart}
    /\ HasStatus("backtest", "success") => LiveCharts = {backtestChart}

\* Two renderings succeeded: the first instance is destroyed, the second live.
C10_Witness ==
    /\ charts = <<FALSE, TRUE>>
    /\ backtestChart = 2
    /\ HasStatus("backtest", "success")

(***************************************************************************)
(* updateStatus called on any step with any of the four statuses, in any   *)
(* order.                                                                  *)
(***************************************************************************)
SetStatus(step, st) ==
    /\ status' = updateStatus(status, step, st)
    /\ UNCHANGED <<globals, chartVars, inputVars, pageVars, loading, disabled,
                   taskVars, datasetsTask, lastAlert>>

BadgeNext == \E step \in Steps, st \in Statuses : SetStatus(step, st)

BadgeSpec == PageLoad /\ [][BadgeNext]_vars

(***************************************************************************)
(* C11.  After any sequence of updateStatus calls the badge of every step  *)
(* carries exactly one of the four status classes; after a call it is the  *)
(* class of the status of that call, with its label; and a second call     *)
(* with the same status changes nothing.                                   *)
(***************************************************************************)
C11_OneStatusClass ==
    /\ \A step \in Steps : Cardinality(StatusesOf(step)) = 1
    /\ [][\A step \in Steps, st \in Statuses :
            SetStatus(step, st) =>
               /\ Cardinality(StatusesOf(step)') = 1
               /\ status'[step].classes \cap {statusClasses(x) : x \in Statuses}
                     = {statusClasses(st)}
               /\ status'[step].text = statusTexts(st)
               /\ updateStatus(status', step, st) = status']_vars

\* Every status is shown by some badge, the upload badge back on pending
\* after having been set to something else.
C11_Witness ==
    /\ HasStatus("pdf", "pending")
    /\ HasStatus("extract", "processing")
    /\ HasStatus("factor", "success")
    /\ HasStatus("backtest", "error")
    /\ status["backtest"].text = statusTexts("error")
    /\ tasks = EmptyBag

(***************************************************************************)
(* C12.  saveCode stores the editor's text as the generated code, issues   *)
(* no request and changes no status, no enablement and no other field of   *)
(* the pipeline state; a runBacktest that issues its request sends the     *)
(* code stored at that moment, the edited text after a saveCode; and       *)
(* editCode puts the stored code in the editor, so that saveCode right     *)
(* after it, the editor not edited, leaves the stored code as it was.      *)
(***************************************************************************)
\* The request this step issues, if it issues one.
Issued == CHOOSE task \in BagToSet(tasks') : tasks' = tasks (+) SetToBag({task})

C12_SaveCode ==
    [][/\ saveCode =>
             /\ currentFactorCode' = codeEditor
             /\ NoRequest
             /\ UNCHANGED <<currentMarkdownContent, currentExtractedInfo,
                            badgeVars, taskVars, chartVars>>
       /\ editCode => codeEditor' = currentFactorCode /\ UNCHANGED globals
       /\ (codeEditor = currentFactorCode /\ saveCode) => UNCHANGED globals
       /\ Calling("backtest") => Issued.body.factor_code = currentFactorCode]_vars

\* The code was generated, edited and saved, and the backtest now in flight
\* carries the edited text.
C12_Witness ==
    /\ currentFactorCode \in EditedTexts
    /\ factorCode = currentFactorCode
    /\ modal = "hidden"
    /\ \E task \in BagToSet(tasks) :
          task.step = "backtest" /\ task.body.factor_code = currentFactorCode

(***************************************************************************)
(* C13.  No step issues more than one request, and the step that ends an   *)
(* invocation issues none (no retry); a step whose status is error is not  *)
(* stuck: its operation, invoked again with the precondition holding,      *)
(* issues a new request and sets the status to processing, and a success   *)
(* response that renders brings the status to success whatever it was.     *)
(***************************************************************************)
\* The operation of step is invoked in this step, with its precondition met.
Invoked(step) ==
    CASE step = "pdf" -> pdfFile # NoFile /\ uploadPDF
      [] step = "extract" -> currentMarkdownContent # "" /\ extractContent
      [] step = "factor" ->
            /\ Truthy(currentExtractedInfo)
            /\ ObjectKeysLength(currentExtractedInfo) # 0
            /\ generateFactor
      [] step = "backtest" ->
            currentFactorCode # "" /\ datasetValue # "" /\ runBacktest

C13_NoRetryReattempt ==
    [][/\ BagCardinality(tasks') <= BagCardinality(tasks) + 1
       /\ \A task \in BagToSet(tasks) :
             tasks' = tasks (-) SetToBag({task}) \/ ~Settle(task)
       /\ \A step \in Steps :
             (HasStatus(step, "error") /\ Invoked(step))
             => Calling(step) /\ HasStatus(step, "processing")'
       /\ \A task \in BagToSet(tasks) :
             /\ \A data \in MarkdownPayloads :
                   uploadPDF_then(task, Success(data), FALSE)
                   => HasStatus("pdf", "success")'
             /\ extractContent_then(task, Success(MomInfo))
                   => HasStatus("extract", "success")'
             /\ \A data \in CodePayloads :
                   generateFactor_then(task, Success(data), FALSE)
                   => HasStatus("factor", "success")'
             /\ runBacktest_then(task, Success([stats |-> TRUE, returns |-> TRUE]))
                   => HasStatus("backtest", "success")']_vars

\* An upload was rejected and the step ended in error; uploadPDF was invoked
\* again and its new request is in flight, the status processing.
C13_Witness ==
    /\ lastAlert = UploadFailed(FetchRejection)
    /\ HasStatus("pdf", "processing")
    /\ calls = 2
    /\ BagCardinality(tasks) = 1
    /\ InFlight("pdf")

(***************************************************************************)
(* The workflow driven through the page: a function runs when its button   *)
(* is clicked, and a disabled button cannot be clicked.  main.js never     *)
(* disables the upload button; the save button is in the editor's modal.   *)
(***************************************************************************)
GatedNext ==
    \/ uploadPDF
    \/ ~disabled["extractBtn"] /\ extractContent
    \/ ~disabled["generateBtn"] /\ generateFactor
    \/ ~disabled["backtestBtn"] /\ runBacktest
    \/ ~disabled["editBtn"] /\ editCode
    \/ modal = "shown" /\ saveCode
    \/ loadDatasets_catch
    \/ \E hasDatasets \in BOOLEAN : loadDatasets_then(hasDatasets, DatasetIds)
    \/ \E file \in Files \cup {NoFile} : SelectFile(file)
    \/ \E value \in DatasetIds \cup {""} : SelectDataset(value)
    \/ \E text \in EditedTexts \cup {""} : TypeCode(text)
    \/ Resume

GatedSpec == Init /\ [][GatedNext]_vars

\* The stored extracted info is a non-empty mapping.
NonEmptyInfo ==
    Truthy(currentExtractedInfo) /\ ObjectKeysLength(currentExtractedInfo) # 0

(***************************************************************************)
(* C14, as claimed.  With the operations triggered through enabled         *)
(* controls only, in every reachable state the generated code is non-empty *)
(* only if the extracted info is non-empty, and the extracted info is      *)
(* non-empty only if the document content is non-empty.                    *)
(***************************************************************************)
C14_AsClaimed ==
    /\ currentFactorCode # "" => NonEmptyInfo
    /\ NonEmptyInfo => currentMarkdownContent # ""

(***************************************************************************)
(* C17, as claimed.  With the operations triggered through enabled         *)
(* controls only, in every reachable state the extract button is enabled   *)
(* only if the document content is non-empty, the generate button only if  *)
(* the extracted info is a non-empty mapping and the backtest button only  *)
(* if the generated code is non-empty; so none of the three 'complete the  *)
(* previous step first' messages is ever alerted.                          *)
(***************************************************************************)
C17_AsClaimed ==
    /\ ~disabled["extractBtn"] => currentMarkdownContent # ""
    /\ ~disabled["generateBtn"] => NonEmptyInfo
    /\ ~disabled["backtestBtn"] => currentFactorCode # ""
    /\ lastAlert \notin {AlertUploadFirst, AlertExtractFirst, AlertGenerateFirst}

(***************************************************************************)
(* Overlapping invocations of one step.                                    *)
(***************************************************************************)
\* One invocation of step is suspended and the status of step is success or
\* error: another invocation of step completed after this one was issued, so
\* the two overlapped and this one is the last of them to complete.
LastOfOverlap(step) ==
    /\ BagCardinality([t \in {u \in BagToSet(tasks) : u.step = step} |-> tasks[t]]) = 1
    /\ HasStatus(step, "success") \/ HasStatus(step, "error")

\* The status a response asks for.
StatusOf(result) == IF result.success THEN "success" ELSE "error"

(***************************************************************************)
(* C15, as claimed.  When the last of two overlapping invocations of a     *)
(* step completes with a response, the stored pipeline field of the step   *)
(* is the payload of that response and the status of the step is that of   *)
(* that response.                                                          *)
(***************************************************************************)
C15_AsClaimed ==
    [][\A task \in BagToSet(tasks) :
          /\ \A data \in MarkdownPayloads, ok \in BOOLEAN :
                LET result == IF ok THEN Success(data) ELSE Failure(data) IN
                (LastOfOverlap("pdf") /\ uploadPDF_then(task, result, FALSE))
                => /\ currentMarkdownContent' = data
                   /\ HasStatus("pdf", StatusOf(result))'
          /\ \A ok \in BOOLEAN :
                LET result == IF ok THEN Success(MomInfo) ELSE Failure(MomInfo) IN
                (LastOfOverlap("extract") /\ extractContent_then(task, result))
                => /\ currentExtractedInfo' = MomInfo
                   /\ HasStatus("extract", StatusOf(result))'
          /\ \A data \in CodePayloads, ok \in BOOLEAN :
                LET result == IF ok THEN Success(data) ELSE Failure(data) IN
                (LastOfOverlap("factor") /\ generateFactor_then(task, result, FALSE))
                => /\ currentFactorCode' = data
                   /\ HasStatus("factor", StatusOf(result))']_vars

(***************************************************************************)
(* C15, amended.  An invocation of a step issued while another of the same *)
(* step is in flight issues its own request and leaves the other in        *)
(* flight; a completion ends its own invocation alone; and when the last   *)
(* of two overlapping invocations completes, the status of the step is     *)
(* that of this completion, the stored field is the payload of its         *)
(* response if the response says success, and is left as the earlier       *)
(* completion left it if the response says failure or the await rejected.  *)
(***************************************************************************)
C15_Overlap ==
    [][/\ \A step \in Steps :
             (InFlight(step) /\ Invoked(step))
             => /\ Calling(step)
                /\ \A task \in BagToSet(tasks) :
                      task \in BagToSet(tasks') /\ tasks'[task] >= tasks[task]
       /\ \A task \in BagToSet(tasks) :
             /\ tasks' = tasks (-) SetToBag({task}) \/ ~Settle(task)
             /\ \A data \in MarkdownPayloads :
                   /\ (LastOfOverlap("pdf")
                          /\ uploadPDF_then(task, Success(data), FALSE))
                      => /\ currentMarkdownContent' = data
                         /\ HasStatus("pdf", "success")'
                   /\ (LastOfOverlap("pdf")
                          /\ uploadPDF_then(task, Failure(data), FALSE))
                      => UNCHANGED globals /\ HasStatus("pdf", "error")'
             /\ (LastOfOverlap("extract")
                    /\ extractContent_then(task, Success(MomInfo)))
                => /\ currentExtractedInfo' = MomInfo
                   /\ HasStatus("extract", "success")'
             /\ (LastOfOverlap("extract")
                    /\ extractContent_then(task, Failure(MomInfo)))
                => UNCHANGED globals /\ HasStatus("extract", "error")'
             /\ \A data \in CodePayloads :
                   /\ (LastOfOverlap("factor")
                          /\ generateFactor_then(task, Success(data), FALSE))
                      => /\ currentFactorCode' = data
                         /\ HasStatus("factor", "success")'
                   /\ (LastOfOverlap("factor")
                          /\ generateFactor_then(task, Failure(data), FALSE))
                      => UNCHANGED globals /\ HasStatus("factor", "error")'
             /\ \A message \in Rejections :
                   ( /\ LastOfOverlap(task.step)
                     /\ \/ uploadPDF_catch(task, message)
                        \/ extractContent_catch(task, message)
                        \/ generateFactor_catch(task, message)
                        \/ runBacktest_catch(task, message) )
                   => UNCHANGED globals /\ HasStatus(task.step, "error")']_vars

\* Two extractContent invocations overlapped and one has completed: it
\* stored its info and set success while the other is still in flight.
C15_Witness ==
    /\ LastOfOverlap("extract")
    /\ calls = 2
    /\ HasStatus("extract", "success")
    /\ currentExtractedInfo = MomInfo
    /\ ~loading["extract"]

(***************************************************************************)
(* C16, as claimed.  A step that ends an invocation of uploadPDF,          *)
(* extractContent or generateFactor with the status of its step error      *)
(* leaves the document content, the extracted info and the generated code  *)
(* as they were, also when the response said success and rendering its     *)
(* payload threw.                                                          *)
(***************************************************************************)
C16_AsClaimed ==
    [][\A step \in {"pdf", "extract", "factor"} :
          (Completing(step) /\ HasStatus(step, "error")') => UNCHANGED globals]_vars

(***************************************************************************)
(* C18, as claimed.  In every reachable state, if the extract status is    *)
(* success the stored extracted info answers a request that carried the    *)
(* document content now stored, and if the generate status is success the  *)
(* stored code answers a request that carried the extracted info now       *)
(* stored.                                                                 *)
(***************************************************************************)
C18_AsClaimed ==
    /\ HasStatus("extract", "success") => sourceOf.info = currentMarkdownContent
    /\ HasStatus("factor", "success") => sourceOf.code = currentExtractedInfo

(***************************************************************************)
(* C19, as claimed.  In every reachable state, a step with a request in    *)
(* flight has the status processing and its loading affordance shown.      *)
(***************************************************************************)
C19_AsClaimed ==
    \A step \in Steps :
        InFlight(step) => HasStatus(step, "processing") /\ loading[step]

=============================================================================
